---- MODULE Spec2Model ----
(***************************************************************************)
(* A model of the support-library sample programs:                         *)
(*   - sample_reader/received_packet_dto_handler.py  (ReceivedPacketDto-   *)
(*     Handler.handle: decode one envelope and project one parameter),     *)
(*   - sample_writer/periodic_packet_generator.py    (PeriodicPacket-      *)
(*     Generator.generate_packets: one paced batch of 100 samples),        *)
(*   - sample_writer/mock_data_writer.py             (MockDataWriter:      *)
(*     the fixed sequence of writes of one mock session).                  *)
(* The support library itself (packet reader, lookup service, writer       *)
(* service, session service) is the environment: its answers are chosen    *)
(* nondeterministically.                                                   *)
(***************************************************************************)
EXTENDS Integers, Sequences, FiniteSets, TLC

VARIABLES
    \* ---- sample_reader: ReceivedPacketDtoHandler and its caller ----
    assertions,            \* __debug__: FALSE when Python runs with -O
    interested_parameter,  \* ReceivedPacketDtoHandler.__interested_parameter
    phase,                 \* position of the packet reader's dispatch
    packet,                \* the ReceivedPacketDto handed to handle
    records,               \* logger.info lines emitted by the current handle
    errors,                \* logger.error lines emitted by the current handle
    lookups,               \* get_parameters_list calls made by the current handle
    response,              \* what the lookup service answered to the current handle
    raised,                \* the exception that escaped the current handle
    prevFailed,            \* the previous handle ended in a lookup failure
    \* ---- sample_writer: PeriodicPacketGenerator ----
    interval,              \* PeriodicPacketGenerator.__interval
    data_format_id,        \* PeriodicPacketGenerator.__data_format_id
    first_timestamp,       \* PeriodicPacketGenerator.__first_timestamp (cursor)
    gpc,                   \* position inside generate_packets
    i,                     \* loop index of generate_packets
    double_samples,        \* the list built by generate_packets
    sleep_ns,              \* numerator of the last time.sleep argument
    entry_timestamp,       \* cursor value at entry to the current call
    calls,                 \* number of calls of generate_packets made
    returned,              \* the payloads returned so far, in order
    T0,                    \* the first_timestamp given to the constructor
    configured_id,         \* the data_format_id given to the constructor
    \* ---- sample_writer: MockDataWriter ----
    wpc,                   \* position in create_start_write_and_end_mock_session
    written,               \* the support-library calls made so far, in order
    packet_id,             \* PacketIdGenerator.__packet_id
    stream_index,          \* position of a loop over self.__streams (1-based)
    packets_sent,          \* loop index of the periodic-data loop
    session_info,          \* the SessionInfo of the created session, or None
    last_success,          \* result.success of the last write
    logged,                \* logger.error lines of the writer
    \* ---- the two main programs and SessionNotifier ----
    program,               \* "reader" or "writer": which main() runs
    recording_type,        \* what the user answers to the L/H prompt
    mpc,                   \* the next step of main (1-based)
    ops,                   \* the support-library calls main has made, in order
    failed,                \* the step whose ApiResult was a failure, or None
    exit_status,           \* the status the process ends with
    main_log,              \* the lines main has logged
    notifier,              \* "none", "subscribed" or "unsubscribed"
    subscriptions,         \* per packet-reader event, the handlers subscribed
    raised_event,          \* the last event raised, and the notifier state then
    fired                  \* the callbacks the last event invoked

hvars == <<assertions, interested_parameter, phase, packet, records, errors,
           lookups, response, raised, prevFailed>>
gvars == <<interval, data_format_id, first_timestamp, gpc, i, double_samples,
           sleep_ns, entry_timestamp, calls, returned, T0, configured_id>>
wvars == <<wpc, written, packet_id, stream_index, packets_sent, session_info,
           last_success, logged>>
mvars == <<program, recording_type, mpc, ops, failed, exit_status, main_log,
           notifier, subscriptions, raised_event, fired>>
vars == <<hvars, gvars, wvars, mvars>>

(***************************************************************************)
(* Bounds of the model.                                                    *)
(***************************************************************************)
MaxWidth == 2      \* longest parameter list and longest column list
MaxSamples == 2    \* longest sample list of a column
MaxCalls == 2      \* calls of generate_packets made on one generator

RECURSIVE SeqsUpTo(_, _)
SeqsUpTo(S, n) ==
    IF n = 0 THEN {<<>>}
    ELSE LET shorter == SeqsUpTo(S, n - 1)
         IN  shorter \cup {Append(s, x) : s \in {t \in shorter : Len(t) = n - 1}, x \in S}

(***************************************************************************)
(* sample_reader: the inputs of ReceivedPacketDtoHandler.handle.           *)
(***************************************************************************)
None == <<>>    \* Python's None, and an absent optional

ParameterNames == {"A", "vCar:Chassis"}
ParameterLists == SeqsUpTo(ParameterNames, MaxWidth)

\* The j-th (1-based) sample of every sample list: samples differ by position,
\* so that a reordering or a wrong column shows.
SampleAt(j) ==
    [value  |-> IF j = 1 THEN "0.0" ELSE IF j = 2 THEN "0.5" ELSE "1.0",
     status |-> IF j % 2 = 1 THEN "DATA_STATUS_VALID" ELSE "DATA_STATUS_MISSING"]

SampleLists == {[j \in 1..n |-> SampleAt(j)] : n \in 0..MaxSamples}

\* A SampleColumn: the oneof "list" and the samples of the list that is set.
Columns ==
    {[list |-> "double_samples", samples |-> sl] : sl \in SampleLists}
    \cup {[list |-> "int32_samples", samples |-> [j \in 1..1 |-> SampleAt(3)]]}

ColumnLists == SeqsUpTo(Columns, MaxWidth)

\* start_time and interval of the payloads.
Timings == {[start_time |-> 5, interval |-> 3], [start_time |-> 1000, interval |-> 0]}

\* SampleDataFormat is a oneof: a data-format identifier or a parameter list.
DataFormats ==
    {[data_format_identifier |-> 0, parameter_identifiers |-> pl] : pl \in ParameterLists}
    \cup {[data_format_identifier |-> d, parameter_identifiers |-> <<>>] : d \in {11, 12}}

PeriodicDataPackets ==
    {[data_format |-> df, start_time |-> t.start_time, interval |-> t.interval,
      columns |-> cl] : df \in DataFormats, t \in Timings, cl \in ColumnLists}

\* The content carried by the envelopes that are not periodic data: bytes that
\* would project two records if they were read as a PeriodicDataPacket.
OtherContent ==
    [data_format |-> [data_format_identifier |-> 0,
                      parameter_identifiers |-> <<"vCar:Chassis">>],
     start_time |-> 5, interval |-> 3,
     columns |-> <<[list |-> "double_samples",
                    samples |-> [j \in 1..2 |-> SampleAt(j)]]>>]

OtherTypes == {"Configuration", "Marker", "SessionInfo", "NewSession",
               "EndOfSession", "Unknown"}
DataSources == {"Default", "Other"}

\* ReceivedPacketDto: data_source and the parsed packet_bytes (type, content).
ReceivedPacketDtos ==
    {[data_source |-> ds, type |-> "PeriodicData", content |-> pp] :
        ds \in DataSources, pp \in PeriodicDataPackets}
    \cup {[data_source |-> ds, type |-> ty, content |-> OtherContent] :
        ds \in DataSources, ty \in OtherTypes}

NoPacket == [data_source |-> "", type |-> "", content |-> OtherContent]

\* ApiResult of get_parameters_list: success flag and optional data; data holds
\* the parameter_list when present.
LookupResponses ==
    {[success |-> ok, data |-> None] : ok \in BOOLEAN}
    \cup {[success |-> ok, data |-> <<pl>>] : ok \in BOOLEAN, pl \in ParameterLists}

NoResponse == [success |-> FALSE, data |-> None]

(***************************************************************************)
(* sample_reader: ReceivedPacketDtoHandler.handle.                         *)
(***************************************************************************)
\* str(sample): the text format of a DoubleSample, one line per field that is
\* set; proto3 leaves a zero value out.
SampleText(sample) ==
    (IF sample.value = "0.0" THEN <<>> ELSE <<sample.value>>) \o <<sample.status>>

\* Mutant of Timestamp: the sample index counted from one.
TimestampFromOne(periodic_packet, j) ==
    periodic_packet.start_time + (j + 1) * periodic_packet.interval

Timestamp(periodic_packet, j) ==
    periodic_packet.start_time + j * periodic_packet.interval

\* The logger.info line of one sample.
SampleRecord(periodic_packet, sample, j) ==
    [timestamp |-> Timestamp(periodic_packet, j),
     value     |-> sample.value,
     status    |-> SampleText(sample)]

\* for j in range(len(sample_list)), j 0-based
RECURSIVE SampleLoop(_, _, _, _)
SampleLoop(periodic_packet, sample_list, j, acc) ==
    IF j >= Len(sample_list) THEN acc
    ELSE SampleLoop(periodic_packet, sample_list, j + 1,
                    Append(acc, SampleRecord(periodic_packet, sample_list[j + 1], j)))

WhichOneof(data_column) == data_column.list

\* for i in range(len(parameters)), i 0-based; columns[i] raises IndexError
\* when i is past the end of the columns.
RECURSIVE ParameterLoop(_, _, _, _, _)
ParameterLoop(periodic_packet, parameters, interested, k, acc) ==
    IF k >= Len(parameters) THEN [records |-> acc, raised |-> "none"]
    ELSE IF parameters[k + 1] # interested
    THEN ParameterLoop(periodic_packet, parameters, interested, k + 1, acc)
    ELSE IF k >= Len(periodic_packet.columns)
    THEN [records |-> acc, raised |-> "IndexError"]
    ELSE LET data_column == periodic_packet.columns[k + 1]
         IN  IF WhichOneof(data_column) = "double_samples"
             THEN ParameterLoop(periodic_packet, parameters, interested, k + 1,
                                SampleLoop(periodic_packet, data_column.samples, 0, acc))
             ELSE ParameterLoop(periodic_packet, parameters, interested, k + 1, acc)

\* assert len(parameters) == len(periodic_packet.columns); the statement is
\* compiled out when Python runs with -O.
AssertFails(periodic_packet, parameters, dbg) ==
    dbg /\ Len(parameters) # Len(periodic_packet.columns)

\* Lines 44-60: the assertion and the projection loop.
Project(periodic_packet, parameters, interested, dbg) ==
    IF AssertFails(periodic_packet, parameters, dbg)
    THEN [records |-> <<>>, raised |-> "AssertionError"]
    ELSE ParameterLoop(periodic_packet, parameters, interested, 0, <<>>)

\* Mutant of HasEmbeddedParameters: the embedded list is never looked at.
EmbeddedIgnored(periodic_packet) == FALSE

HasEmbeddedParameters(periodic_packet) ==
    Len(periodic_packet.data_format.parameter_identifiers) > 0

LookupArguments(pkt, periodic_packet) ==
    <<pkt.data_source, periodic_packet.data_format.data_format_identifier>>

LookupFailed(parameters_result) ==
    ~parameters_result.success \/ parameters_result.data = None

\* Mutant of LookupFailureOutcome: the failure is logged and then raised.
LookupFailureRaises(periodic_packet, interested, dbg) ==
    [records |-> <<>>, errors |-> <<"Failed to get parameters">>,
     raised |-> "RuntimeError"]

\* Lines 39-41: log the error and return.
LookupFailureOutcome(periodic_packet, interested, dbg) ==
    [records |-> <<>>, errors |-> <<"Failed to get parameters">>, raised |-> "none"]

\* Mutant of IsPeriodicData: the type filter is gone.
NoTypeFilter(type) == TRUE

IsPeriodicData(type) == type = "PeriodicData"

\* handle(packet), with parameters_result the answer the lookup service gives
\* if it is asked: what the call logs, which lookups it makes, what it raises.
HandleOutcome(pkt, parameters_result, interested, dbg) ==
    IF ~IsPeriodicData(pkt.type)
    THEN [records |-> <<>>, errors |-> <<>>, lookups |-> <<>>, raised |-> "none"]
    ELSE LET periodic_packet == pkt.content
         IN  IF HasEmbeddedParameters(periodic_packet)
             THEN LET out == Project(periodic_packet,
                                     periodic_packet.data_format.parameter_identifiers,
                                     interested, dbg)
                  IN  [records |-> out.records, errors |-> <<>>, lookups |-> <<>>,
                       raised |-> out.raised]
             ELSE LET call == LookupArguments(pkt, periodic_packet)
                  IN  IF LookupFailed(parameters_result)
                      THEN LET out == LookupFailureOutcome(periodic_packet, interested, dbg)
                           IN  [records |-> out.records, errors |-> out.errors,
                                lookups |-> <<call>>, raised |-> out.raised]
                      ELSE LET out == Project(periodic_packet,
                                              parameters_result.data[1],
                                              interested, dbg)
                           IN  [records |-> out.records, errors |-> <<>>,
                                lookups |-> <<call>>, raised |-> out.raised]

\* ReceivedPacketDtoHandler.__init__, before any packet is delivered.
HandlerInit ==
    /\ assertions \in BOOLEAN
    /\ interested_parameter = "vCar:Chassis"
    /\ phase = "idle"
    /\ packet = NoPacket
    /\ records = <<>>
    /\ errors = <<>>
    /\ lookups = <<>>
    /\ response = NoResponse
    /\ raised = "none"
    /\ prevFailed = FALSE

\* The packet reader has a packet for the handler it was given by set_handler.
Receive ==
    /\ phase = "idle"
    /\ \E pkt \in ReceivedPacketDtos : packet' = pkt
    /\ phase' = "pending"
    /\ UNCHANGED <<assertions, interested_parameter, records, errors, lookups,
                   response, raised, prevFailed, gvars, wvars, mvars>>

\* handler.handle(packet). The lookup service answers only when it is asked.
Handle ==
    /\ phase = "pending"
    /\ \E parameters_result \in LookupResponses :
         LET out == HandleOutcome(packet, parameters_result, interested_parameter,
                                  assertions)
         IN  /\ (out.lookups = <<>> => parameters_result = NoResponse)
             /\ records' = out.records
             /\ errors' = out.errors
             /\ lookups' = out.lookups
             /\ raised' = out.raised
             /\ response' = parameters_result
    /\ phase' = "handled"
    /\ UNCHANGED <<assertions, interested_parameter, packet, prevFailed, gvars, wvars, mvars>>

\* handle has returned (or the reader swallowed its exception): the reader
\* drops the packet and goes on to the next one.
Return ==
    /\ phase = "handled"
    /\ phase' = "idle"
    /\ prevFailed' = (errors # <<>>)
    /\ packet' = NoPacket
    /\ records' = <<>>
    /\ errors' = <<>>
    /\ lookups' = <<>>
    /\ response' = NoResponse
    /\ raised' = "none"
    /\ UNCHANGED <<assertions, interested_parameter, gvars, wvars, mvars>>

\* The exception that escaped handle ends the consumer.
Abort ==
    /\ phase = "handled"
    /\ raised # "none"
    /\ phase' = "aborted"
    /\ UNCHANGED <<assertions, interested_parameter, packet, records, errors,
                   lookups, response, raised, prevFailed, gvars, wvars, mvars>>

(***************************************************************************)
(* sample_writer: PeriodicPacketGenerator.                                 *)
(***************************************************************************)
NsPerSecond == 1000000000   \* 1E9
sample_count == 100

\* Constructor arguments.
Frequencies == {1000, 400000000, 1000000000}
FirstTimestamps == {0, 1700}
DataFormatIds == {11, 12}

\* int(1E9 / frequency)
Interval(frequency) == NsPerSecond \div frequency

\* end_time - start_time of one sample: two readings of time.time(), which may
\* lie further apart than the interval, and which a clock step can invert.
ElapsedTimes(nominal) == {-1, 0, nominal, nominal + 1}

\* DoubleSample(value=math.sin(x_value), status=DATA_STATUS_VALID), x_value
\* being step * 2 * pi / sample_count; the value is kept as its step.
DoubleSample(step) == [value |-> step, status |-> "DATA_STATUS_VALID"]

\* (self.__interval - (end_time - start_time)) / 1E9, kept as its numerator.
SleepArgument(nominal, elapsed) == nominal - elapsed

\* time.sleep raises ValueError for a negative argument.
SleepRaises(duration) == duration < 0

PeriodicDataPacket(format_id, start, step, samples) ==
    [data_format |-> [data_format_identifier |-> format_id],
     start_time  |-> start,
     interval    |-> step,
     columns     |-> <<[list |-> "double_samples", samples |-> samples]>>]

AdvanceCursor(cursor, step) == cursor + step * sample_count

\* A generator that is not part of the run.
GeneratorIdle ==
    /\ interval = 0
    /\ data_format_id = 0
    /\ first_timestamp = 0
    /\ gpc = "none"
    /\ i = 0
    /\ double_samples = <<>>
    /\ sleep_ns = 0
    /\ entry_timestamp = 0
    /\ calls = 0
    /\ returned = <<>>
    /\ T0 = 0
    /\ configured_id = 0

\* PeriodicPacketGenerator(frequency, data_format_id, first_timestamp)
GeneratorInit ==
    /\ \E frequency \in Frequencies : interval = Interval(frequency)
    /\ data_format_id \in DataFormatIds
    /\ configured_id = data_format_id
    /\ first_timestamp \in FirstTimestamps
    /\ T0 = first_timestamp
    /\ gpc = "idle"
    /\ i = 0
    /\ double_samples = <<>>
    /\ sleep_ns = 0
    /\ entry_timestamp = first_timestamp
    /\ calls = 0
    /\ returned = <<>>

\* Entry of generate_packets: lines 14-17.
GenCall ==
    /\ gpc = "idle"
    /\ calls < MaxCalls
    /\ calls' = calls + 1
    /\ entry_timestamp' = first_timestamp
    /\ double_samples' = <<>>
    /\ i' = 0
    /\ gpc' = "loop"
    /\ UNCHANGED <<interval, data_format_id, first_timestamp, sleep_ns, returned,
                   T0, configured_id, hvars, wvars, mvars>>

\* One iteration of the loop: lines 19-25.
GenSample ==
    /\ gpc = "loop"
    /\ i < sample_count
    /\ double_samples' = Append(double_samples, DoubleSample(i))
    /\ \E elapsed \in ElapsedTimes(interval) :
         /\ sleep_ns' = SleepArgument(interval, elapsed)
         /\ IF SleepRaises(sleep_ns')
            THEN gpc' = "raised" /\ i' = i
            ELSE gpc' = "loop" /\ i' = i + 1
    /\ UNCHANGED <<interval, data_format_id, first_timestamp, entry_timestamp,
                   calls, returned, T0, configured_id, hvars, wvars, mvars>>

\* After the loop: lines 27-33.
GenReturn ==
    /\ gpc = "loop"
    /\ i = sample_count
    /\ returned' = Append(returned,
                          PeriodicDataPacket(data_format_id, first_timestamp,
                                             interval, double_samples))
    /\ first_timestamp' = AdvanceCursor(first_timestamp, interval)
    /\ gpc' = "idle"
    /\ UNCHANGED <<interval, data_format_id, i, double_samples, sleep_ns,
                   entry_timestamp, calls, T0, configured_id, hvars, wvars, mvars>>

(***************************************************************************)
(* sample_writer: MockDataWriter.                                          *)
(***************************************************************************)
number_of_packets == 100

\* Mutant of Streams: the second stream is missing from the list.
OnlyDefaultStream == <<"">>

Streams == <<"", "Stream1">>    \* self.__streams

\* Mutant of GetPacketId: the increment is missing.
GetPacketIdStuck(counter) == [id |-> counter, counter |-> counter]

\* PacketIdGenerator.get_packet_id: the id handed out and the counter after it.
GetPacketId(counter) == [id |-> counter, counter |-> counter + 1]

\* ApiResult of create_new_session and of get_parameter_data_format_id.
CreatedSession == <<[data_source |-> "Default", session_key |-> "key-1"]>>
SessionResponses ==
    {[success |-> ok, data |-> d] : ok \in BOOLEAN, d \in {None, CreatedSession}}
FormatIdResponses ==
    {[success |-> ok, data |-> d] : ok \in BOOLEAN, d \in {None, <<11>>}}

ApiFailed(api_result) == ~api_result.success \/ api_result.data = None

\* One call of the support library, as the trace keeps it.
LibraryCall(call, type, stream, id) ==
    [call |-> call, type |-> type, stream |-> stream, id |-> id]

\* __create_and_send_packet(Packet(type=..., id=get_packet_id()), ..., stream):
\* the write_data call it makes.
SendPacket(type, stream) ==
    /\ written' = Append(written,
                         LibraryCall("write_data", type, stream,
                                     GetPacketId(packet_id).id))
    /\ packet_id' = GetPacketId(packet_id).counter
    /\ last_success' \in BOOLEAN

\* A writer that is not part of the run.
WriterIdle ==
    /\ wpc = "none"
    /\ written = <<>>
    /\ packet_id = 0
    /\ stream_index = 1
    /\ packets_sent = 0
    /\ session_info = None
    /\ last_success = TRUE
    /\ logged = <<>>

\* MockDataWriter.__init__
WriterInit ==
    /\ wpc = "create"
    /\ written = <<>>
    /\ packet_id = 0
    /\ stream_index = 1
    /\ packets_sent = 0
    /\ session_info = None
    /\ last_success = TRUE
    /\ logged = <<>>

\* Lines 40-46: create the session, or log and return.
CreateSession ==
    /\ wpc = "create"
    /\ \E session_info_response \in SessionResponses :
         /\ written' = Append(written, LibraryCall("create_new_session", "", "", -1))
         /\ IF ApiFailed(session_info_response)
            THEN /\ logged' = Append(logged, "Failed to create new session")
                 /\ wpc' = "done"
                 /\ UNCHANGED session_info
            ELSE /\ session_info' = session_info_response.data
                 /\ wpc' = "new_session"
                 /\ UNCHANGED logged
    /\ stream_index' = 1
    /\ UNCHANGED <<packet_id, packets_sent, last_success, hvars, gvars, mvars>>

\* __start_session: one NewSession packet per stream.
StartSession ==
    /\ wpc = "new_session"
    /\ SendPacket("NewSession", Streams[stream_index])
    /\ IF stream_index < Len(Streams)
       THEN stream_index' = stream_index + 1 /\ wpc' = "new_session"
       ELSE stream_index' = 1 /\ wpc' = "config"
    /\ UNCHANGED <<packets_sent, session_info, logged, hvars, gvars, mvars>>

\* Mutant of SendConfiguration: the failure path returns without __end_session.
SendConfigurationNoEnd ==
    /\ wpc = "config"
    /\ SendPacket("Configuration", "")
    /\ IF last_success'
       THEN wpc' = "format_id" /\ UNCHANGED logged
       ELSE /\ logged' = Append(logged, "Failed to send config packet")
            /\ wpc' = "done"
    /\ UNCHANGED <<stream_index, packets_sent, session_info, hvars, gvars, mvars>>

\* Lines 54-64: the Configuration packet; a failed write ends the session.
SendConfiguration ==
    /\ wpc = "config"
    /\ SendPacket("Configuration", "")
    /\ IF last_success'
       THEN wpc' = "format_id" /\ UNCHANGED logged
       ELSE /\ logged' = Append(logged, "Failed to send config packet")
            /\ wpc' = "end_markers"
    /\ UNCHANGED <<stream_index, packets_sent, session_info, hvars, gvars, mvars>>

\* Lines 67-73: get_parameter_data_format_id; a failure ends the session.
GetDataFormatId ==
    /\ wpc = "format_id"
    /\ \E data_format_id_response \in FormatIdResponses :
         /\ written' = Append(written,
                              LibraryCall("get_parameter_data_format_id", "", "", -1))
         /\ IF ApiFailed(data_format_id_response)
            THEN /\ logged' = Append(logged, "Failed to get data format ID")
                 /\ wpc' = "end_markers"
            ELSE wpc' = "marker" /\ UNCHANGED logged
    /\ UNCHANGED <<packet_id, stream_index, packets_sent, session_info,
                   last_success, hvars, gvars, mvars>>

\* Mutant of SendMarker: a failed write of the marker ends the session.
SendMarkerChecked ==
    /\ wpc = "marker"
    /\ SendPacket("Marker", "")
    /\ wpc' = IF last_success' THEN "session_info" ELSE "end_markers"
    /\ UNCHANGED <<stream_index, packets_sent, session_info, logged, hvars, gvars, mvars>>

\* Lines 80-86: the Out Lap marker.
SendMarker ==
    /\ wpc = "marker"
    /\ SendPacket("Marker", "")
    /\ wpc' = "session_info"
    /\ UNCHANGED <<stream_index, packets_sent, session_info, logged, hvars, gvars, mvars>>

\* Lines 88-94: __create_and_send_session_info_packet, a write_info call.
SendSessionInfo ==
    /\ wpc = "session_info"
    /\ written' = Append(written,
                         LibraryCall("write_info", "SessionInfo", "",
                                     GetPacketId(packet_id).id))
    /\ packet_id' = GetPacketId(packet_id).counter
    /\ last_success' \in BOOLEAN
    /\ packets_sent' = 0
    /\ wpc' = "generate"
    /\ UNCHANGED <<stream_index, session_info, logged, hvars, gvars, mvars>>

\* Line 100: periodic_packet_generator.generate_packets(), which returns a
\* payload or lets the ValueError of a negative time.sleep escape.
GeneratePacket ==
    /\ wpc = "generate"
    /\ \E sleep_raises \in BOOLEAN :
         wpc' = IF sleep_raises THEN "raised" ELSE "periodic"
    /\ UNCHANGED <<written, packet_id, stream_index, packets_sent, session_info,
                   last_success, logged, hvars, gvars, mvars>>

\* Lines 101-104: the PeriodicData packet, to "Stream1".
SendPeriodicData ==
    /\ wpc = "periodic"
    /\ SendPacket("PeriodicData", "Stream1")
    /\ packets_sent' = packets_sent + 1
    /\ wpc' = IF packets_sent' < number_of_packets THEN "generate" ELSE "end_markers"
    /\ UNCHANGED <<stream_index, session_info, logged, hvars, gvars, mvars>>

\* __end_session, lines 159-164: one EndOfSession packet per stream.
SendEndOfSession ==
    /\ wpc = "end_markers"
    /\ SendPacket("EndOfSession", Streams[stream_index])
    /\ IF stream_index < Len(Streams)
       THEN stream_index' = stream_index + 1 /\ wpc' = "end_markers"
       ELSE stream_index' = 1 /\ wpc' = "end_session"
    /\ UNCHANGED <<packets_sent, session_info, logged, hvars, gvars, mvars>>

\* __end_session, lines 166-167: end_session on the session service.
EndSession ==
    /\ wpc = "end_session"
    /\ written' = Append(written, LibraryCall("end_session", "", "", -1))
    /\ last_success' \in BOOLEAN
    /\ wpc' = "done"
    /\ UNCHANGED <<packet_id, stream_index, packets_sent, session_info, logged,
                   hvars, gvars, mvars>>

(***************************************************************************)
(* sample_reader/main.py, sample_writer/main.py and SessionNotifier.       *)
(***************************************************************************)
\* One statement of main that matters: a call of the support library (kind
\* "call"), a call whose ApiResult main tests ("create", with the line logged
\* on failure), the session picked by index ("select"), the SessionNotifier
\* constructor ("subscribe"), unsubscribe_from_events ("unsubscribe"), an
\* input() that waits for Enter ("input"), the MockDataWriter run ("writer").
Step(svc, op, kind, message) ==
    [svc |-> svc, op |-> op, kind |-> kind, message |-> message]

Call(svc, op) == Step(svc, op, "call", "")

\* sample_reader/main.py, lines 31-52.
ReaderStart ==
    <<Call("support_lib", "initialise"),
      Call("support_lib", "start"),
      Call("support_lib", "get_data_format_manager_api"),
      Step("data_format", "create_service", "create",
           "Failed to create data format management service"),
      Call("data_format", "initialise"),
      Call("data_format", "start"),
      Call("support_lib", "get_reading_packet_api")>>

\* sample_reader/main.py, lines 153-154.
ReaderEnd ==
    <<Call("data_format", "stop"),
      Call("support_lib", "stop")>>

\* Mutant of ReaderLive: the handler is set before the reader is started.
ReaderLiveHandlerFirst ==
    <<Step("packet_reader", "create_service_with_config", "create",
           "Failed to create packet reader service"),
      Call("packet_reader", "initialise"),
      Call("packet_reader", "set_handler"),
      Call("packet_reader", "start"),
      Step("packet_reader", "SessionNotifier", "subscribe", ""),
      Step("", "input", "input", ""),
      Step("packet_reader", "unsubscribe_from_events", "unsubscribe", ""),
      Call("packet_reader", "stop"),
      Call("packet_reader", "remove_handler")>>

\* sample_reader/main.py, lines 60-90: the live branch.
ReaderLive ==
    <<Step("packet_reader", "create_service_with_config", "create",
           "Failed to create packet reader service"),
      Call("packet_reader", "initialise"),
      Call("packet_reader", "start"),
      Call("packet_reader", "set_handler"),
      Step("packet_reader", "SessionNotifier", "subscribe", ""),
      Step("", "input", "input", ""),
      Step("packet_reader", "unsubscribe_from_events", "unsubscribe", ""),
      Call("packet_reader", "stop"),
      Call("packet_reader", "remove_handler")>>

\* sample_reader/main.py, lines 92-149: the historic branch.
ReaderHistoric ==
    <<Call("support_lib", "get_session_manager_api"),
      Step("session_management", "create_service", "create",
           "Failed to create session management service"),
      Call("session_management", "initialise"),
      Call("session_management", "start"),
      Step("session_management", "get_all_sessions", "create",
           "Failed to get sessions"),
      Step("", "sessions[index]", "select", "Index invalid! Exiting..."),
      Step("packet_reader", "create_service", "create",
           "Failed to create packet reader service"),
      Call("packet_reader", "initialise"),
      Call("packet_reader", "start"),
      Call("packet_reader", "set_handler"),
      Step("packet_reader", "SessionNotifier", "subscribe", ""),
      Step("", "input", "input", ""),
      Step("packet_reader", "unsubscribe_from_events", "unsubscribe", ""),
      Call("packet_reader", "stop"),
      Call("packet_reader", "remove_handler"),
      Call("session_management", "stop")>>

\* sample_writer/main.py, lines 27-83: the whole of main.
WriterMain ==
    <<Call("support_lib", "initialise"),
      Call("support_lib", "start"),
      Call("support_lib", "get_session_manager_api"),
      Step("session_management", "create_service", "create",
           "Unable to create session management service"),
      Call("session_management", "initialise"),
      Call("session_management", "start"),
      Call("support_lib", "get_data_format_manager_api"),
      Step("data_format", "create_service", "create",
           "Unable to create data format management service"),
      Call("data_format", "initialise"),
      Call("data_format", "start"),
      Call("support_lib", "get_writing_packet_api"),
      Step("packet_writer", "create_service", "create",
           "Unable to create writing packet writing service"),
      Call("packet_writer", "initialise"),
      Call("packet_writer", "start"),
      Step("", "MockDataWriter", "writer", ""),
      Step("", "input", "input", ""),
      Call("session_management", "stop"),
      Call("data_format", "stop"),
      Call("packet_writer", "stop"),
      Call("support_lib", "stop")>>

\* The statements of the run, by program and by the answer to the L/H prompt.
Script ==
    IF program = "writer" THEN WriterMain
    ELSE IF recording_type = "L" THEN ReaderStart \o ReaderLive \o ReaderEnd
    ELSE IF recording_type = "H" THEN ReaderStart \o ReaderHistoric \o ReaderEnd
    ELSE ReaderStart \o ReaderEnd

Finished == mpc > Len(Script)
Running == program # "none" /\ ~Finished

Done(svc, op) == \E p \in 1..Len(ops) : ops[p] = <<svc, op>>
ServiceStarted(svc) == Done(svc, "start") /\ ~Done(svc, "stop")

\* sys.exit(1): nothing of the script is left to run.
AfterFailure(script, pc) == Len(script) + 1

\* SessionNotifier: the packet-reader events and the handler each is given.
Events == {"session_reading_started", "session_reading_completed",
           "stream_reading_started", "stream_reading_completed",
           "session_info_updated", "coverage_cursor_received",
           "session_association_info_updated"}

\* SessionNotifier.__init__, lines 17-23.
SubscribedHandler(event) ==
    CASE event = "session_reading_started" -> "__on_session_reading_started"
      [] event = "session_reading_completed" -> "__on_session_reading_complete"
      [] event = "stream_reading_started" -> "__on_stream_reading_started"
      [] event = "stream_reading_completed" -> "__on_stream_reading_complete"
      [] event = "session_info_updated" -> "__on_session_info_updated"
      [] event = "coverage_cursor_received" -> "__on_coverage_cursor_received"
      [] event = "session_association_info_updated" -> "__on_session_association_updated"

\* Mutant of UnsubscribedHandler: the started handler is taken off the
\* completed event as well.
UnsubscribedHandlerCopied(event) ==
    CASE event = "session_reading_started" -> "__on_session_reading_started"
      [] event = "session_reading_completed" -> "__on_session_reading_started"
      [] event = "stream_reading_started" -> "__on_stream_reading_started"
      [] event = "stream_reading_completed" -> "__on_stream_reading_complete"
      [] event = "session_info_updated" -> "__on_session_info_updated"
      [] event = "coverage_cursor_received" -> "__on_coverage_cursor_received"
      [] event = "session_association_info_updated" -> "__on_session_association_updated"

\* SessionNotifier.unsubscribe_from_events, lines 26-32.
UnsubscribedHandler(event) ==
    CASE event = "session_reading_started" -> "__on_session_reading_started"
      [] event = "session_reading_completed" -> "__on_session_reading_complete"
      [] event = "stream_reading_started" -> "__on_stream_reading_started"
      [] event = "stream_reading_completed" -> "__on_stream_reading_complete"
      [] event = "session_info_updated" -> "__on_session_info_updated"
      [] event = "coverage_cursor_received" -> "__on_coverage_cursor_received"
      [] event = "session_association_info_updated" -> "__on_session_association_updated"

NoEvent == <<"none", "none">>

\* The packets the reader delivers while main runs.
DeliveredPackets ==
    {pkt \in ReceivedPacketDtos :
        /\ pkt.data_source = "Default"
        /\ pkt.type \in {"PeriodicData", "Marker"}
        /\ pkt.content.start_time = 5
        /\ pkt.content.columns = OtherContent.columns
        /\ pkt.content.data_format.data_format_identifier \in {0, 11}
        /\ pkt.content.data_format.parameter_identifiers \in {<<>>, <<"vCar:Chassis">>}}

\* No main program is part of the run.
MainIdle ==
    /\ program = "none"
    /\ recording_type = "none"
    /\ mpc = 1
    /\ ops = <<>>
    /\ failed = None
    /\ exit_status = 0
    /\ main_log = <<>>
    /\ notifier = "none"
    /\ subscriptions = [e \in Events |-> {}]
    /\ raised_event = NoEvent
    /\ fired = {}

\* The start of one of the two main programs.
MainInit ==
    /\ program \in {"reader", "writer"}
    /\ recording_type \in (IF program = "reader" THEN {"L", "H", "other"} ELSE {"none"})
    /\ mpc = 1
    /\ ops = <<>>
    /\ failed = None
    /\ exit_status = 0
    /\ main_log = <<>>
    /\ notifier = "none"
    /\ subscriptions = [e \in Events |-> {}]
    /\ raised_event = NoEvent
    /\ fired = {}

AtStep(kind) == Running /\ Script[mpc].kind = kind

\* A call of the support library whose result main does not test.
MainCall ==
    /\ AtStep("call")
    /\ ops' = Append(ops, <<Script[mpc].svc, Script[mpc].op>>)
    /\ mpc' = mpc + 1
    /\ UNCHANGED <<program, recording_type, failed, exit_status, main_log,
                   notifier, subscriptions, raised_event, fired, hvars, gvars, wvars>>

\* A call whose ApiResult main tests: on failure it logs and calls sys.exit(1).
MainCreate ==
    /\ AtStep("create")
    /\ ops' = Append(ops, <<Script[mpc].svc, Script[mpc].op>>)
    /\ \E api_failed \in BOOLEAN :
         IF api_failed
         THEN /\ failed' = <<Script[mpc]>>
              /\ main_log' = Append(main_log, Script[mpc].message)
              /\ exit_status' = 1
              /\ mpc' = AfterFailure(Script, mpc)
         ELSE /\ mpc' = mpc + 1
              /\ UNCHANGED <<failed, main_log, exit_status>>
    /\ UNCHANGED <<program, recording_type, notifier, subscriptions,
                   raised_event, fired, hvars, gvars, wvars>>

\* sample_reader/main.py, lines 119-123: sessions[int(input(...))] finds the
\* session, raises IndexError or ValueError, or finds None.
MainSelect ==
    /\ AtStep("select")
    /\ \E outcome \in {"found", "raises", "none"} :
         IF outcome = "found"
         THEN mpc' = mpc + 1 /\ UNCHANGED <<main_log, exit_status>>
         ELSE /\ mpc' = Len(Script) + 1
              /\ exit_status' = 1
              /\ main_log' = IF outcome = "none"
                             THEN Append(main_log, Script[mpc].message)
                             ELSE main_log
    /\ UNCHANGED <<program, recording_type, ops, failed, notifier, subscriptions,
                   raised_event, fired, hvars, gvars, wvars>>

\* input(...): the user presses Enter.
MainInput ==
    /\ AtStep("input")
    /\ mpc' = mpc + 1
    /\ UNCHANGED <<program, recording_type, ops, failed, exit_status, main_log,
                   notifier, subscriptions, raised_event, fired, hvars, gvars, wvars>>

\* SessionNotifier(packet_reader, logger): the seven subscribe calls.
NotifierSubscribe ==
    /\ AtStep("subscribe")
    /\ subscriptions' = [e \in Events |-> subscriptions[e] \cup {SubscribedHandler(e)}]
    /\ notifier' = "subscribed"
    /\ ops' = Append(ops, <<Script[mpc].svc, "subscribe">>)
    /\ mpc' = mpc + 1
    /\ UNCHANGED <<program, recording_type, failed, exit_status, main_log,
                   raised_event, fired, hvars, gvars, wvars>>

\* session_notifier.unsubscribe_from_events(): the seven unsubscribe calls.
NotifierUnsubscribe ==
    /\ AtStep("unsubscribe")
    /\ subscriptions' = [e \in Events |-> subscriptions[e] \ {UnsubscribedHandler(e)}]
    /\ notifier' = "unsubscribed"
    /\ ops' = Append(ops, <<Script[mpc].svc, "unsubscribe">>)
    /\ mpc' = mpc + 1
    /\ UNCHANGED <<program, recording_type, failed, exit_status, main_log,
                   raised_event, fired, hvars, gvars, wvars>>

\* The started packet reader raises one of its events: every handler
\* subscribed to it is called.
RaiseEvent ==
    /\ Running
    /\ ServiceStarted("packet_reader")
    /\ \E e \in Events :
         /\ raised_event' = <<e, notifier>>
         /\ fired' = subscriptions[e]
    /\ UNCHANGED <<program, recording_type, mpc, ops, failed, exit_status,
                   main_log, notifier, subscriptions, hvars, gvars, wvars>>

\* The started packet reader hands a packet to the handler set by set_handler:
\* one whole handler.handle(packet).
DeliverPacket ==
    /\ Running
    /\ ServiceStarted("packet_reader")
    /\ Done("packet_reader", "set_handler")
    /\ \E pkt \in DeliveredPackets, parameters_result \in LookupResponses :
         LET out == HandleOutcome(pkt, parameters_result, interested_parameter,
                                  assertions)
         IN  /\ (out.lookups = <<>> => parameters_result = NoResponse)
             /\ packet' = pkt
             /\ records' = out.records
             /\ errors' = out.errors
             /\ lookups' = out.lookups
             /\ raised' = out.raised
             /\ response' = parameters_result
    /\ UNCHANGED <<assertions, interested_parameter, phase, prevFailed, gvars,
                   wvars, mvars>>

\* sample_writer/main.py, lines 74-77: the MockDataWriter is built and run.
StartMockDataWriter ==
    /\ AtStep("writer")
    /\ wpc = "none"
    /\ wpc' = "create"
    /\ UNCHANGED <<written, packet_id, stream_index, packets_sent, session_info,
                   last_success, logged, hvars, gvars, mvars>>

\* create_start_write_and_end_mock_session has returned.
FinishMockDataWriter ==
    /\ AtStep("writer")
    /\ wpc = "done"
    /\ mpc' = mpc + 1
    /\ UNCHANGED <<program, recording_type, ops, failed, exit_status, main_log,
                   notifier, subscriptions, raised_event, fired, hvars, gvars, wvars>>

\* The exception that escaped create_start_write_and_end_mock_session is not
\* caught by main: the process ends with a traceback.
MockDataWriterRaised ==
    /\ AtStep("writer")
    /\ wpc = "raised"
    /\ exit_status' = 1
    /\ mpc' = Len(Script) + 1
    /\ UNCHANGED <<program, recording_type, ops, failed, main_log,
                   notifier, subscriptions, raised_event, fired, hvars, gvars, wvars>>

(***************************************************************************)
(* Specifications.                                                         *)
(***************************************************************************)
HandlerIdle == HandlerInit /\ assertions = TRUE

InitHandler == HandlerInit /\ GeneratorIdle /\ WriterIdle /\ MainIdle
NextHandler == Receive \/ Handle \/ Return \/ Abort
SpecHandler == InitHandler /\ [][NextHandler]_vars

InitGenerator == HandlerIdle /\ GeneratorInit /\ WriterIdle /\ MainIdle
NextGenerator == GenCall \/ GenSample \/ GenReturn
SpecGenerator == InitGenerator /\ [][NextGenerator]_vars

InitWriter == HandlerIdle /\ GeneratorIdle /\ WriterInit /\ MainIdle
NextWriter ==
    \/ CreateSession \/ StartSession \/ SendConfiguration \/ GetDataFormatId
    \/ SendMarker \/ SendSessionInfo \/ GeneratePacket \/ SendPeriodicData
    \/ SendEndOfSession \/ EndSession
SpecWriter == InitWriter /\ [][NextWriter]_vars

InitMain == HandlerInit /\ GeneratorIdle /\ WriterIdle /\ MainInit
NextMain ==
    \/ MainCall \/ MainCreate \/ MainSelect \/ MainInput
    \/ NotifierSubscribe \/ NotifierUnsubscribe \/ RaiseEvent \/ DeliverPacket
    \/ StartMockDataWriter \/ FinishMockDataWriter \/ MockDataWriterRaised
    \/ NextWriter
SpecMain == InitMain /\ [][NextMain]_vars

(***************************************************************************)
(* Properties of ReceivedPacketDtoHandler.handle (SpecHandler).            *)
(***************************************************************************)
Handled == phase = "handled"
HandledPeriodic == Handled /\ packet.type = "PeriodicData"
Embedded == packet.content.data_format.parameter_identifiers

\* The current handle obtained a parameter list, and which one.
Resolved == HandledPeriodic /\ (Embedded # <<>> \/ ~LookupFailed(response))
ResolvedParameters == IF Embedded # <<>> THEN Embedded ELSE response.data[1]

PositionsOf(parameters) ==
    {k \in 1..Len(parameters) : parameters[k] = "vCar:Chassis"}

CountsAgree == Len(ResolvedParameters) = Len(packet.content.columns)

\* C1, as stated: whenever the resolved parameter count equals the column count
\* and the parameter of interest is at index k, handle emits exactly
\* len(columns[k].samples) records, record j stamped start_time + j * interval.
C1_AsStated ==
    (Resolved /\ CountsAgree) =>
        \A k \in PositionsOf(ResolvedParameters) :
            LET samples == packet.content.columns[k].samples
            IN  /\ Len(records) = Len(samples)
                /\ \A j \in 0..(Len(samples) - 1) :
                     records[j + 1].timestamp
                         = packet.content.start_time + j * packet.content.interval

\* C1, amended: the same, for a parameter of interest that is at index k and at
\* no other index, and whose column k holds double samples.
C1_DoubleColumnTimestamps ==
    (Resolved /\ CountsAgree) =>
        \A k \in PositionsOf(ResolvedParameters) :
            (/\ PositionsOf(ResolvedParameters) = {k}
             /\ packet.content.columns[k].list = "double_samples")
            => LET samples == packet.content.columns[k].samples
               IN  /\ Len(records) = Len(samples)
                   /\ \A j \in 0..(Len(samples) - 1) :
                        records[j + 1].timestamp
                            = packet.content.start_time + j * packet.content.interval

C1_Witness ==
    /\ Resolved /\ CountsAgree
    /\ PositionsOf(ResolvedParameters) = {2}
    /\ packet.content.columns[2].list = "double_samples"
    /\ packet.content.interval = 3
    /\ Len(records) = 2
    /\ records[2].timestamp = 8

\* C2: whenever the parameter count differs from the column count, handle logs
\* a malformed-record error, emits no record and lets no exception escape.
C2_MismatchIsReported ==
    (Resolved /\ ~CountsAgree) =>
        /\ errors # <<>>
        /\ records = <<>>
        /\ raised = "none"

\* C3: an envelope whose type tag is not "PeriodicData" yields no record, no
\* error and no call of the lookup service.
C3_OtherTypesAreSkipped ==
    (Handled /\ packet.type # "PeriodicData") =>
        /\ records = <<>>
        /\ errors = <<>>
        /\ lookups = <<>>
        /\ raised = "none"

C3_Witness == Handled /\ packet.type = "Marker" /\ packet.content.columns # <<>>

\* The records of a double column that is the only match, written directly.
DirectProjection(periodic_packet, k) ==
    [j \in 1..Len(periodic_packet.columns[k].samples) |->
        [timestamp |-> periodic_packet.start_time + (j - 1) * periodic_packet.interval,
         value     |-> periodic_packet.columns[k].samples[j].value,
         status    |-> SampleText(periodic_packet.columns[k].samples[j])]]

\* C4: a failed lookup logs exactly one error, emits no record, is not retried
\* and returns normally; the handle that follows it treats a valid envelope as it
\* would have without the failure.
C4_LookupFailureIsLocal ==
    /\ (HandledPeriodic /\ Embedded = <<>> /\ LookupFailed(response)) =>
           /\ errors = <<"Failed to get parameters">>
           /\ records = <<>>
           /\ Len(lookups) = 1
           /\ raised = "none"
    /\ (prevFailed /\ Resolved /\ CountsAgree) =>
           /\ interested_parameter = "vCar:Chassis"
           /\ errors = <<>>
           /\ raised = "none"
           /\ \A k \in PositionsOf(ResolvedParameters) :
                (/\ PositionsOf(ResolvedParameters) = {k}
                 /\ packet.content.columns[k].list = "double_samples")
                => records = DirectProjection(packet.content, k)

C4_Witness ==
    /\ prevFailed /\ Resolved /\ CountsAgree
    /\ PositionsOf(ResolvedParameters) = {1}
    /\ Len(records) = 2

\* The number of records the parameter list `parameters` selects.
SelectedCount(periodic_packet, parameters) ==
    Cardinality({<<k, j>> \in (1..Len(parameters)) \X (1..MaxSamples + 1) :
                    /\ parameters[k] = "vCar:Chassis"
                    /\ k <= Len(periodic_packet.columns)
                    /\ periodic_packet.columns[k].list = "double_samples"
                    /\ j <= Len(periodic_packet.columns[k].samples)})

\* C5: the parameter list comes from exactly one source: a non-empty embedded
\* list is used and the lookup service is not called; otherwise the lookup
\* service is called exactly once, with (data source, data-format identifier),
\* and its result is used.
C5_OneParameterSource ==
    HandledPeriodic =>
        /\ IF Embedded # <<>>
           THEN lookups = <<>>
           ELSE lookups = <<<<packet.data_source,
                              packet.content.data_format.data_format_identifier>>>>
        /\ (Resolved /\ raised = "none" /\ CountsAgree) =>
               Len(records) = SelectedCount(packet.content, ResolvedParameters)
        /\ (Resolved /\ assertions) =>
               (raised = "AssertionError" <=> ~CountsAgree)

C5_Witness ==
    /\ HandledPeriodic /\ Embedded = <<>>
    /\ lookups = <<<<"Other", 12>>>>
    /\ Resolved /\ ResolvedParameters = <<"A", "vCar:Chassis">>
    /\ Len(records) = 2

NoCallInProgress == gpc # "loop"

\* C7: after n calls of generate_packets the cursor is T0 + n * 100 * interval,
\* and each returned payload starts 100 * interval after the one before it.
C7_CursorAfterCalls ==
    NoCallInProgress =>
        /\ first_timestamp = T0 + calls * sample_count * interval
        /\ \A k \in 2..Len(returned) :
             returned[k].start_time
                 = returned[k - 1].start_time + sample_count * interval

\* C8: the duration handed to time.sleep is never negative, whatever time the
\* sample took.
C8_SleepNeverNegative == sleep_ns >= 0

\* C9: every call of generate_packets returns one payload: one column of 100
\* samples, all valid, stamped with the configured data-format identifier, the
\* cursor value at entry and the configured interval.
C9_EveryCallReturnsOneBatch ==
    NoCallInProgress =>
        /\ Len(returned) = calls
        /\ calls > 0 =>
             LET payload == returned[calls]
             IN  /\ Len(payload.columns) = 1
                 /\ Len(payload.columns[1].samples) = 100
                 /\ \A j \in 1..Len(payload.columns[1].samples) :
                      payload.columns[1].samples[j].status = "DATA_STATUS_VALID"
                 /\ payload.data_format.data_format_identifier = configured_id
                 /\ payload.start_time = entry_timestamp
                 /\ payload.interval = interval

(***************************************************************************)
(* Properties of MockDataWriter (SpecWriter).                              *)
(***************************************************************************)
WrittenBefore(p, type, stream) ==
    \E q \in 1..(p - 1) :
        /\ written[q].call = "write_data"
        /\ written[q].type = type
        /\ written[q].stream = stream

\* C10: once the session is created, a NewSession marker is written to "" and to
\* "Stream1" before any Configuration, Marker, SessionInfo or PeriodicData
\* packet, and the Configuration packet before the first PeriodicData packet.
C10_NewSessionThenConfigurationThenData ==
    \A p \in 1..Len(written) :
        /\ written[p].type \in {"Configuration", "Marker", "SessionInfo", "PeriodicData"}
             => /\ WrittenBefore(p, "NewSession", "")
                /\ WrittenBefore(p, "NewSession", "Stream1")
        /\ written[p].type = "PeriodicData" => WrittenBefore(p, "Configuration", "")

C10_Witness ==
    /\ wpc = "done"
    /\ session_info # None
    /\ \E p \in 1..Len(written) : written[p].type = "PeriodicData"
    /\ \E p \in 1..Len(written) : written[p].type = "Marker"

RunEnded == wpc \in {"done", "raised"}
WriterLogged(message) == \E k \in 1..Len(logged) : logged[k] = message
SessionCreated == session_info # None
CallsOf(call) == {p \in 1..Len(written) : written[p].call = call}
PacketPositions == {p \in 1..Len(written) : written[p].id >= 0}

\* C11: every stream a packet of the session was written to gets an
\* EndOfSession marker as its last packet, and every EndOfSession marker is
\* written before end_session.
C11_EndOfSessionClosesEveryStream ==
    RunEnded =>
        /\ \A p \in CallsOf("write_data") :
             \E q \in CallsOf("write_data") :
                 /\ q >= p
                 /\ written[q].stream = written[p].stream
                 /\ written[q].type = "EndOfSession"
                 /\ \A r \in CallsOf("write_data") :
                      written[r].stream = written[p].stream => r <= q
        /\ \A p \in CallsOf("write_data") :
             written[p].type = "EndOfSession" =>
                 \E q \in CallsOf("end_session") : p < q

\* C12: get_packet_id hands out 0 first and then ever greater values: the ids
\* of the packets, in the order they are sent, start at 0, increase strictly
\* and never repeat.
C12_PacketIdsIncreaseFromZero ==
    /\ \A p \in PacketPositions :
         /\ (\A q \in PacketPositions : q >= p) => written[p].id = 0
         /\ \A q \in PacketPositions : p < q => written[p].id < written[q].id
         /\ written[p].id < packet_id
    /\ PacketPositions = {} => packet_id = 0

C12_Witness ==
    /\ wpc = "done"
    /\ Cardinality(PacketPositions) = number_of_packets + 7

\* C16: when the Configuration write fails or the data-format id cannot be
\* obtained, the session is still ended (EndOfSession to every stream, then
\* end_session) and no Marker, SessionInfo or PeriodicData packet is written.
C16_FailureStillEndsTheSession ==
    (WriterLogged("Failed to send config packet")
        \/ WriterLogged("Failed to get data format ID")) =>
        /\ wpc \in {"end_markers", "end_session", "done"}
        /\ \A p \in 1..Len(written) :
             written[p].type \notin {"Marker", "SessionInfo", "PeriodicData"}
        /\ wpc = "done" =>
             LET n == Len(written)
             IN  /\ n >= 3
                 /\ written[n] = LibraryCall("end_session", "", "", -1)
                 /\ written[n - 1].type = "EndOfSession"
                 /\ written[n - 1].stream = "Stream1"
                 /\ written[n - 2].type = "EndOfSession"
                 /\ written[n - 2].stream = ""

C16_Witness ==
    /\ wpc = "done"
    /\ WriterLogged("Failed to get data format ID")
    /\ Len(written) = 8

\* C17: end_session is called exactly once if the session was created and never
\* otherwise; it is the last library call of the run, and no packet is written
\* when the session could not be created.
C17_EndSessionExactlyOnce ==
    RunEnded =>
        /\ Cardinality(CallsOf("end_session")) = (IF SessionCreated THEN 1 ELSE 0)
        /\ \A p \in CallsOf("end_session") : p = Len(written)
        /\ ~SessionCreated => PacketPositions = {}

\* The calls of a run, by the branch it took; none depends on the result of a
\* write other than that of the Configuration packet.
SessionStart ==
    <<LibraryCall("create_new_session", "", "", -1),
      LibraryCall("write_data", "NewSession", "", 0),
      LibraryCall("write_data", "NewSession", "Stream1", 1),
      LibraryCall("write_data", "Configuration", "", 2)>>

SessionEnd(next_id) ==
    <<LibraryCall("write_data", "EndOfSession", "", next_id),
      LibraryCall("write_data", "EndOfSession", "Stream1", next_id + 1),
      LibraryCall("end_session", "", "", -1)>>

ExpectedRun ==
    IF WriterLogged("Failed to create new session")
    THEN <<LibraryCall("create_new_session", "", "", -1)>>
    ELSE IF WriterLogged("Failed to send config packet")
    THEN SessionStart \o SessionEnd(3)
    ELSE IF WriterLogged("Failed to get data format ID")
    THEN SessionStart
         \o <<LibraryCall("get_parameter_data_format_id", "", "", -1)>>
         \o SessionEnd(3)
    ELSE SessionStart
         \o <<LibraryCall("get_parameter_data_format_id", "", "", -1),
              LibraryCall("write_data", "Marker", "", 3),
              LibraryCall("write_info", "SessionInfo", "", 4)>>
         \o [k \in 1..number_of_packets |->
                LibraryCall("write_data", "PeriodicData", "Stream1", 4 + k)]
         \o SessionEnd(5 + number_of_packets)

IsPrefix(s, t) == Len(s) <= Len(t) /\ \A k \in 1..Len(s) : s[k] = t[k]

\* C18: a failed write of a packet other than the Configuration packet changes
\* nothing of what follows: the calls made, their ids and streams, are those of
\* the run in which every write succeeds.
C18_FailedWritesChangeNothing ==
    /\ IsPrefix(written, ExpectedRun)
    /\ wpc = "done" => written = ExpectedRun

C18_Witness ==
    /\ wpc = "end_markers"
    /\ packets_sent = number_of_packets
    /\ ~last_success
    /\ logged = <<>>

(***************************************************************************)
(* The main programs and SessionNotifier.                                  *)
(***************************************************************************)
FailedStep == failed[1]
LastOp == ops[Len(ops)]
SessionCreationFailed == WriterLogged("Failed to create new session")

\* C13: whenever a creation or lookup call of the support library fails (a
\* service creation, the session listing, the creation of a new session), the
\* failure is logged, the process exits with a non-zero status, and no further
\* support-library operation is performed in the run.
C13_FailuresAreFatal ==
    /\ failed # None =>
         /\ Finished
         /\ exit_status # 0
         /\ main_log # <<>>
         /\ main_log[Len(main_log)] = FailedStep.message
         /\ LastOp = <<FailedStep.svc, FailedStep.op>>
         /\ written = <<>>
    /\ SessionCreationFailed =>
         /\ Len(written) = 1
         /\ LastOp = <<"packet_writer", "start">>
         /\ (Finished => exit_status # 0)

\* C14: unsubscribe_from_events takes every handler the constructor subscribed
\* off the event it was subscribed to: once it has returned no callback of
\* the notifier is registered on any event, and an event raised afterwards
\* fires none (one raised while subscribed fires exactly its handler).
C14_NoCallbackAfterUnsubscribe ==
    /\ notifier = "subscribed" =>
         \A e \in Events : subscriptions[e] = {SubscribedHandler(e)}
    /\ notifier = "unsubscribed" =>
         \A e \in Events : subscriptions[e] = {}
    /\ raised_event[2] = "subscribed" => fired = {SubscribedHandler(raised_event[1])}
    /\ raised_event[2] = "unsubscribed" => fired = {}

C14_Witness ==
    /\ notifier = "unsubscribed"
    /\ raised_event = <<"session_info_updated", "unsubscribed">>
    /\ fired = {}
    /\ Done("packet_reader", "unsubscribe")

InitialisedBefore(svc, p) == \E q \in 1..(p - 1) : ops[q] = <<svc, "initialise">>
StartedBefore(svc, p) ==
    \E q \in 1..(p - 1) : ops[q] = <<svc, "start">> /\ InitialisedBefore(svc, q)
Services == {"data_format", "session_management", "packet_reader", "packet_writer"}
Creations == {"create_service", "create_service_with_config"}

\* C15: the support library is initialised and then started before any
\* service is created from it, and every service is initialised and then
\* started before any other operation of it: set_handler, the subscriptions,
\* the lookups of the handler and the calls of MockDataWriter included.
C15_InitialiseThenStartBeforeUse ==
    /\ \A p \in 1..Len(ops) :
         LET svc == ops[p][1]
             op == ops[p][2]
         IN  CASE op = "initialise" -> TRUE
               [] op = "start" -> InitialisedBefore(svc, p)
               [] op \in Creations -> StartedBefore("support_lib", p)
               [] OTHER -> StartedBefore(svc, p)
    /\ lookups # <<>> => StartedBefore("data_format", Len(ops) + 1)
    /\ written # <<>> =>
         \A svc \in Services \ {"packet_reader"} : StartedBefore(svc, Len(ops) + 1)

C15_Witness ==
    /\ program = "reader"
    /\ recording_type = "H"
    /\ lookups # <<>>
    /\ Done("packet_reader", "set_handler")
    /\ Done("session_management", "get_all_sessions")
    /\ Finished


====
